---- MODULE Spec2Model ----
(***************************************************************************)
(* Model of ImageProcessor.go (the final program text, lines 892-1545):    *)
(* main() reads an XML token stream, builds the works / makes / models     *)
(* graph, then writes the static site.                                     *)
(*                                                                         *)
(* Strings are sequences of one-character strings.  A pointer to a Work,   *)
(* a Make or a Model is the index of the object in works, makes or models  *)
(* (the allocation order of createModel); the nil pointer is 0.            *)
(*                                                                         *)
(* The decoder may deliver any start tag, end tag or text next, or fail;   *)
(* it reports io.EOF only when every element it opened is closed.          *)
(***************************************************************************)
EXTENDS Integers, Sequences, FiniteSets, TLC

\* ---------------------------------------------------------------- bounds
\* number of tokens the decoder delivers in one run
MaxTokens == 9
\* depth of the element stack: a third of the token budget
MaxStack == MaxTokens \div 3

\* ---------------------------------------------------------------- inputs
\* element names the feed may use ("works" stands for any other element)
Names == {"work", "id", "filename", "make", "model", "url", "works"}

\* attribute value lists of a start tag
AttrLists == {<<>>, <<"small">>, <<"medium">>, <<"large">>, <<"small", "large">>}

\* character data the feed may hold
Texts == {<<" ">>, <<"A">>, <<" ", "A">>, <<"7">>}

\* ---------------------------------------------------------------- strings
Digits == {"0", "1", "2", "3", "4", "5", "6", "7", "8", "9"}

Upper == {"A", "B", "C", "D", "E", "F", "G", "H", "I", "J", "K", "L", "M",
          "N", "O", "P", "Q", "R", "S", "T", "U", "V", "W", "X", "Y", "Z"}

Lower == {"a", "b", "c", "d", "e", "f", "g", "h", "i", "j", "k", "l", "m",
          "n", "o", "p", "q", "r", "s", "t", "u", "v", "w", "x", "y", "z"}

\* A string is a sequence of characters, each a string of its own: a
\* character of ASCII is the string of that character, a character outside
\* ASCII is the string of its code point, as "U+00E9".

\* unicode.IsSpace, the test of strings.TrimSpace: tab, line feed, vertical
\* tab, form feed, carriage return, space, next line, no-break space and the
\* characters of the property White_Space beyond Latin-1
IsSpace(c) ==
    c \in {"\t", "\n", "", "\f", "\r", " ", "U+0085", "U+00A0", "U+1680",
           "U+2000", "U+2001", "U+2002", "U+2003", "U+2004", "U+2005", "U+2006",
           "U+2007", "U+2008", "U+2009", "U+200A", "U+2028", "U+2029", "U+202F",
           "U+205F", "U+3000"}

IsAlnum(c) == c \in Upper \cup Lower \cup Digits

RECURSIVE TrimLeft(_)
TrimLeft(s) ==
    IF s # <<>> /\ IsSpace(Head(s)) THEN TrimLeft(Tail(s)) ELSE s

RECURSIVE TrimRight(_)
TrimRight(s) ==
    IF s # <<>> /\ IsSpace(s[Len(s)])
    THEN TrimRight(SubSeq(s, 1, Len(s) - 1))
    ELSE s

\* strings.TrimSpace
TrimSpace(s) == TrimRight(TrimLeft(s))

DigitVal(c) ==
    CASE c = "0" -> 0 [] c = "1" -> 1 [] c = "2" -> 2 [] c = "3" -> 3
      [] c = "4" -> 4 [] c = "5" -> 5 [] c = "6" -> 6 [] c = "7" -> 7
      [] c = "8" -> 8 [] c = "9" -> 9

RECURSIVE DecVal(_)
DecVal(s) ==
    IF s = <<>> THEN 0
    ELSE 10 * DecVal(SubSeq(s, 1, Len(s) - 1)) + DigitVal(s[Len(s)])

\* the digits of the largest int (2^63 - 1) and of the magnitude of the
\* smallest (2^63)
MaxIntDigits ==
    <<"9", "2", "2", "3", "3", "7", "2", "0", "3", "6", "8", "5", "4", "7", "7",
      "5", "8", "0", "7">>

MinIntDigits ==
    <<"9", "2", "2", "3", "3", "7", "2", "0", "3", "6", "8", "5", "4", "7", "7",
      "5", "8", "0", "8">>

\* the digits without their leading zeros
RECURSIVE StripZeros(_)
StripZeros(ds) ==
    IF Len(ds) > 1 /\ Head(ds) = "0" THEN StripZeros(Tail(ds)) ELSE ds

\* a <= b for two digit strings of one length
RECURSIVE LeqDigits(_, _)
LeqDigits(a, b) ==
    IF a = <<>> THEN TRUE
    ELSE IF Head(a) # Head(b) THEN DigitVal(Head(a)) < DigitVal(Head(b))
    ELSE LeqDigits(Tail(a), Tail(b))

\* the number of the digits ds, negated or not, is an int (64 bits)
InIntRange(negative, ds) ==
    LET m == StripZeros(ds)
    IN  \/ Len(m) < Len(MaxIntDigits)
        \/ /\ Len(m) = Len(MaxIntDigits)
           /\ LeqDigits(m, IF negative THEN MinIntDigits ELSE MaxIntDigits)

\* the int of the digits ds, negated or not: the integer itself up to the
\* magnitude 2^31 - 1, the largest the model checker computes with; an int
\* beyond it is given by its numeral (sign, digits without leading zeros)
IntOf(negative, ds) ==
    LET m     == StripZeros(ds)
        small == <<"2", "1", "4", "7", "4", "8", "3", "6", "4", "7">>
    IN  IF Len(m) < Len(small) \/ (Len(m) = Len(small) /\ LeqDigits(m, small))
        THEN IF negative THEN 0 - DecVal(m) ELSE DecVal(m)
        ELSE IF negative THEN <<"-">> \o m ELSE m

\* strconv.Atoi: an optional sign, then one or more decimal digits of a
\* number in the range of int; anything else is an error (ErrSyntax,
\* ErrRange)
Atoi(s) ==
    LET signed   == s # <<>> /\ Head(s) \in {"+", "-"}
        negative == signed /\ Head(s) = "-"
        body     == IF signed THEN Tail(s) ELSE s
        ok       == /\ body # <<>>
                    /\ \A k \in 1..Len(body) : body[k] \in Digits
                    /\ InIntRange(negative, body)
    IN  [ok  |-> ok,
         val |-> IF ok THEN IntOf(negative, body) ELSE 0]

\* mutant: the expression without "+", every character replaced on its own
RECURSIVE ReplaceAllString_EachChar(_)
ReplaceAllString_EachChar(name) ==
    IF name = <<>> THEN <<>>
    ELSE (IF IsAlnum(Head(name)) THEN <<Head(name)>> ELSE <<"-">>)
         \o ReplaceAllString_EachChar(Tail(name))

\* regexp "[^A-Za-z0-9]+" ReplaceAllString(name, "-")
RECURSIVE ReplaceAllString(_)
ReplaceAllString(name) ==
    IF name = <<>> THEN <<>>
    ELSE IF IsAlnum(Head(name))
         THEN <<Head(name)>> \o ReplaceAllString(Tail(name))
         ELSE IF Len(name) > 1 /\ ~IsAlnum(name[2])
              THEN ReplaceAllString(Tail(name))
              ELSE <<"-">> \o ReplaceAllString(Tail(name))

GenericMake == <<"(", "G", "e", "n", "e", "r", "i", "c", " ", "m", "a", "k", "e", ")">>

GenericModel == <<"(", "G", "e", "n", "e", "r", "i", "c", " ", "m", "o", "d", "e", "l", ")">>

\* ---------------------------------------------------------------- objects
createWork ==
    [ID |-> -1, FileName |-> <<>>, WMake |-> 0, WModel |-> 0,
     URISmall |-> <<>>, URIMedium |-> <<>>, URILarge |-> <<>>]

createMake(name) ==
    [ID |-> 0, Name |-> name, Models |-> <<>>, Works |-> <<>>,
     PageURL |-> ReplaceAllString(name)]

\* mutant: the new model does not record its make
createModel_NoOwner(name, make) ==
    [ID |-> 0, MMake |-> 0, Works |-> <<>>, Name |-> name,
     PageURL |-> ReplaceAllString(name)]

createModel(name, make) ==
    [ID |-> 0, MMake |-> make, Works |-> <<>>, Name |-> name,
     PageURL |-> ReplaceAllString(name)]

\* ---------------------------------------------------------------- state
VARIABLES
    pc,                 \* where main() is: "parse", a terminal state, ...
    feed,               \* the tokens of the data body, <<>> for any tokens
    limit,              \* the number of tokens of the data body, at most
    pos,                \* number of tokens read from the decoder
    stack,              \* open element names
    works,              \* all works, in creation order
    makes,              \* all makes, in creation order
    models,             \* all models, in creation order (the heap of createModel)
    worksSM,            \* works without a make (indexes into works)
    newWork,            \* the work being read (index into works), 0 = nil
    finalized,          \* history: the works whose work end has been processed
    newModelDetected,
    newModel,
    thumbnailURI,
    mediumURI,
    largeURI,
    dirOK,              \* the output directory exists
    files,              \* the os.Create calls that succeeded, in order
    idx,                \* index of the page loop of the phase pc names
    stderr              \* the message written to os.Stderr, "" when none

vars == <<pc, feed, limit, pos, stack, works, makes, models, worksSM, newWork, finalized,
          newModelDetected, newModel, thumbnailURI, mediumURI, largeURI,
          dirOK, files, idx, stderr>>

graph == <<works, makes, models, worksSM>>

flags == <<thumbnailURI, mediumURI, largeURI>>

pending == <<newModelDetected, newModel>>

parser == <<feed, limit, pos, stack, newWork, finalized, newModelDetected, newModel,
            thumbnailURI, mediumURI, largeURI>>

\* os.Exit(1) after the message msg
\* mutant: the message is printed and the run goes on
Exit_Continue(msg) == pc' = pc /\ stderr' = msg

Exit(msg) == pc' = "exit1" /\ stderr' = msg

output == <<dirOK, files, idx>>

\* the exit status of the process once main() has ended: 0 for a return,
\* 1 for os.Exit(1), 2 for a panic
ExitStatus ==
    CASE pc \in {"done", "usage"} -> 0
      [] pc = "exit1" -> 1
      [] pc = "panic" -> 2

Top == IF Len(stack) > 0 THEN stack[Len(stack)] ELSE ""

\* one token of the data body
Token(type, name, attrs, text) ==
    [type |-> type, name |-> name, attrs |-> attrs, text |-> text]

\* dec.Token() returns tok next
Delivers(tok) ==
    /\ pos < limit
    /\ feed # <<>> => feed[pos + 1] = tok

\* the state main() starts in
Start ==
    /\ pc = "args"
    /\ dirOK = FALSE
    /\ files = <<>>
    /\ idx = 0
    /\ stderr = ""
    /\ finalized = {}
    /\ pos = 0
    /\ stack = <<>>
    /\ works = <<>>
    /\ makes = <<>>
    /\ models = <<>>
    /\ worksSM = <<>>
    /\ newWork = 0
    /\ newModelDetected = FALSE
    /\ newModel = <<>>
    /\ thumbnailURI = FALSE
    /\ mediumURI = FALSE
    /\ largeURI = FALSE

\* a data body of any tokens, up to n of them
AnyBody(n) == feed = <<>> /\ limit = n

\* one of the given data bodies
GivenBody(bodies) == feed \in bodies /\ limit = Len(feed)

Init == AnyBody(MaxTokens) /\ Start

\* ---------------------------------------------------------------- xml.StartElement
HasAttr(attrs, v) == \E k \in 1..Len(attrs) : attrs[k] = v

StartElement(name, attrs) ==
    /\ pc = "parse"
    /\ Delivers(Token("start", name, attrs, <<>>))
    /\ feed = <<>> => Len(stack) < MaxStack
    /\ pos' = pos + 1
    /\ stack' = Append(stack, name)
    /\ IF name = "work"
       THEN /\ works' = Append(works, createWork)
            /\ newWork' = Len(works) + 1
       ELSE UNCHANGED <<works, newWork>>
    /\ IF name = "url"
       THEN /\ thumbnailURI' = (thumbnailURI \/ HasAttr(attrs, "small"))
            /\ mediumURI' = (mediumURI \/ HasAttr(attrs, "medium"))
            /\ largeURI' = (largeURI \/ HasAttr(attrs, "large"))
       ELSE UNCHANGED flags
    /\ UNCHANGED <<pc, feed, limit, makes, models, worksSM, finalized, pending, output,
                   stderr>>

\* ---------------------------------------------------------------- xml.EndElement
\* mutant: the consistency check of the end tag is left out
EndMismatch_Never(elementPopped, name) == FALSE

\* the element popped is not the one the end tag names
EndMismatch(elementPopped, name) == elementPopped # name

\* mutant: the finished work is put at the front of its make's works list
FinalizeMakes_Front(w, thisMake, thisModel) ==
    IF thisMake # 0 /\ thisModel # 0
    THEN [makes EXCEPT ![thisMake].Works = <<w>> \o @]
    ELSE makes

\* makes after the finished work w is added to its make's works list
FinalizeMakes(w, thisMake, thisModel) ==
    IF thisMake # 0 /\ thisModel # 0
    THEN [makes EXCEPT ![thisMake].Works = Append(@, w)]
    ELSE makes

\* mutant: the finished work is added to the works list of the first model
FinalizeModels_First(w, thisMake, thisModel) ==
    IF thisMake # 0 /\ thisModel # 0
    THEN [models EXCEPT ![1].Works = Append(@, w)]
    ELSE models

\* mutant: the finished work is not added to its model's works list
FinalizeModels_Skip(w, thisMake, thisModel) == models

\* mutant: a model still pending at the work end is created
FinalizeModels_Pending(w, thisMake, thisModel) ==
    IF newModelDetected
    THEN Append(models, createModel(newModel, thisMake))
    ELSE IF thisMake # 0 /\ thisModel # 0
    THEN [models EXCEPT ![thisModel].Works = Append(@, w)]
    ELSE models

\* models after the finished work w is added to its model's works list
FinalizeModels(w, thisMake, thisModel) ==
    IF thisMake # 0 /\ thisModel # 0
    THEN [models EXCEPT ![thisModel].Works = Append(@, w)]
    ELSE models

\* mutant: the finished work is recorded when it has no model
FinalizeNoMake_NoModel(w, thisMake) ==
    IF works[w].WModel = 0 THEN Append(worksSM, w) ELSE worksSM

\* worksSM after the finished work w is recorded
FinalizeNoMake(w, thisMake) ==
    IF thisMake = 0 THEN Append(worksSM, w) ELSE worksSM

EndElement(name) ==
    /\ pc = "parse"
    /\ Delivers(Token("end", name, <<>>, <<>>))
    /\ pos' = pos + 1
    /\ IF Len(stack) <= 0
       THEN /\ Exit("pop without any on stack")
            /\ UNCHANGED <<stack, graph, newWork, finalized, pending>>
       ELSE LET elementPopped == stack[Len(stack)]
            IN  /\ stack' = SubSeq(stack, 1, Len(stack) - 1)
                /\ IF EndMismatch(elementPopped, name)
                   THEN /\ Exit("closing without matching opener")
                        /\ UNCHANGED <<graph, newWork, finalized, pending>>
                   ELSE IF elementPopped # "work"
                   THEN UNCHANGED <<pc, stderr, graph, newWork, finalized, pending>>
                   ELSE IF newWork = 0
                   THEN \* newWork.WMake with newWork == nil
                        /\ pc' = "panic"
                        /\ stderr' = "panic: nil pointer dereference"
                        /\ UNCHANGED <<graph, newWork, finalized, pending>>
                   ELSE LET thisMake  == works[newWork].WMake
                            thisModel == works[newWork].WModel
                        IN  /\ worksSM' = FinalizeNoMake(newWork, thisMake)
                            /\ makes' = FinalizeMakes(newWork, thisMake, thisModel)
                            /\ models' = FinalizeModels(newWork, thisMake, thisModel)
                            /\ finalized' = finalized \cup {newWork}
                            /\ newWork' = 0
                            /\ newModelDetected' = FALSE
                            /\ newModel' = <<>>
                            /\ UNCHANGED <<pc, stderr, works>>
    /\ UNCHANGED <<feed, limit, flags, output>>

\* ---------------------------------------------------------------- xml.CharData
\* index of the first make of ms named name, 0 when there is none
RECURSIVE FindMakeFrom(_, _, _)
FindMakeFrom(ms, name, k) ==
    IF k > Len(ms) THEN 0
    ELSE IF ms[k].Name = name THEN k
    ELSE FindMakeFrom(ms, name, k + 1)

\* mutant: the scan starts at the second make
FindMake_SkipFirst(ms, name) == FindMakeFrom(ms, name, 2)

FindMake(ms, name) == FindMakeFrom(ms, name, 1)

\* the model named name in the model list mdls of a make (the loop has no
\* break: the last match wins), 0 when there is none
RECURSIVE FindModelFrom(_, _, _, _)
FindModelFrom(heap, mdls, name, k) ==
    IF k < 1 THEN 0
    ELSE IF heap[mdls[k]].Name = name THEN mdls[k]
    ELSE FindModelFrom(heap, mdls, name, k - 1)

\* mutant: the model is looked up among the models of every make
FindModel_Global(heap, mdls, name) ==
    FindModelFrom(heap, [n \in 1..Len(heap) |-> n], name, Len(heap))

FindModel(heap, mdls, name) == FindModelFrom(heap, mdls, name, Len(mdls))

\* the name a make token is recorded under
\* mutant: a blank make name is kept blank
MakeName_Blank(thisToken) == thisToken

MakeName(thisToken) == IF thisToken = <<>> THEN GenericMake ELSE thisToken

\* the name a pending model is recorded under
ModelName(name) == IF name = <<>> THEN GenericModel ELSE name

\* the make list after a make token, and the make the token resolves to
InternMake(ms, thisToken) ==
    LET found == FindMake(ms, thisToken)
    IN  IF found # 0
        THEN [makes |-> ms, thisMake |-> found]
        ELSE [makes |-> Append(ms, createMake(thisToken)), thisMake |-> Len(ms) + 1]

\* mutant: a model created for the work is not added to the make's models list
ResolveModel_NoAppend(ws, ms, heap, w, thisMake) ==
    LET name  == ModelName(newModel)
        owner == ws[w].WMake
        found == IF owner # 0 THEN FindModel(heap, ms[owner].Models, name) ELSE 0
        fresh == Len(heap) + 1
    IN  IF found # 0
        THEN [works |-> [ws EXCEPT ![w].WModel = found],
              makes |-> ms, models |-> heap, newModel |-> name]
        ELSE [works |-> IF owner # 0 THEN [ws EXCEPT ![w].WModel = fresh] ELSE ws,
              makes |-> ms,
              models |-> Append(heap, createModel(name, thisMake)),
              newModel |-> <<>>]

\* the state after the pending model is resolved for work w, whose make is
\* already set in ws
ResolveModel(ws, ms, heap, w, thisMake) ==
    LET name  == ModelName(newModel)
        owner == ws[w].WMake
        found == IF owner # 0 THEN FindModel(heap, ms[owner].Models, name) ELSE 0
        fresh == Len(heap) + 1
    IN  IF found # 0
        THEN [works |-> [ws EXCEPT ![w].WModel = found],
              makes |-> ms, models |-> heap, newModel |-> name]
        ELSE [works |-> IF owner # 0 THEN [ws EXCEPT ![w].WModel = fresh] ELSE ws,
              makes |-> IF owner # 0
                        THEN [ms EXCEPT ![owner].Models = Append(@, fresh)]
                        ELSE ms,
              models |-> Append(heap, createModel(name, thisMake)),
              newModel |-> <<>>]

\* the state after a make token read inside a work
MakeText(thisToken) ==
    LET im == InternMake(makes, MakeName(thisToken))
        w  == Len(works)
        ws == [works EXCEPT ![w].WMake = im.thisMake]
    IN  IF newModelDetected
        THEN ResolveModel(ws, im.makes, models, w, im.thisMake)
        ELSE [works |-> ws, makes |-> im.makes, models |-> models,
              newModel |-> newModel]

\* mutant: the error of strconv.Atoi is not looked at
TextError_NoConvert(top, tok) ==
    IF top = "id" /\ newWork = 0 THEN "ID without Work"
    ELSE IF top = "filename" /\ newWork = 0 THEN "Filename without Work"
    ELSE IF top = "make" /\ newWork = 0 THEN "Make without Work"
    ELSE ""

\* the message of the os.Exit(1) a text token runs into, "" when it is stored
TextError(top, tok) ==
    IF top = "id" /\ ~Atoi(tok).ok THEN "converting Work ID"
    ELSE IF top = "id" /\ newWork = 0 THEN "ID without Work"
    ELSE IF top = "filename" /\ newWork = 0 THEN "Filename without Work"
    ELSE IF top = "make" /\ newWork = 0 THEN "Make without Work"
    ELSE ""

\* the works after the pending URL flags consumed the token
StoreURIs(ws, tok) ==
    IF Len(ws) = 0 THEN ws
    ELSE LET w  == Len(ws)
             w1 == IF thumbnailURI THEN [ws EXCEPT ![w].URISmall = tok] ELSE ws
             w2 == IF mediumURI THEN [w1 EXCEPT ![w].URIMedium = tok] ELSE w1
         IN  IF largeURI THEN [w2 EXCEPT ![w].URILarge = tok] ELSE w2

CharData(text) ==
    /\ pc = "parse"
    /\ Delivers(Token("text", "", <<>>, text))
    /\ pos' = pos + 1
    /\ UNCHANGED <<feed, limit, stack, worksSM, newWork, finalized, output>>
    /\ LET top == Top
           tok == TrimSpace(text)
       IN  IF TextError(top, tok) # ""
           THEN /\ Exit(TextError(top, tok))
                /\ UNCHANGED <<graph, pending, flags>>
           ELSE LET mt == IF top = "make" THEN MakeText(tok)
                          ELSE [works |-> works, makes |-> makes, models |-> models,
                                newModel |-> newModel]
                    ws == CASE top = "id" ->
                                 [works EXCEPT ![newWork].ID = Atoi(tok).val]
                            [] top = "filename" ->
                                 [works EXCEPT ![newWork].FileName = tok]
                            [] OTHER -> mt.works
                IN  /\ works' = StoreURIs(ws, tok)
                    /\ makes' = mt.makes
                    /\ models' = mt.models
                    /\ newModel' = IF top = "model" THEN tok ELSE mt.newModel
                    /\ newModelDetected' =
                         IF top = "model" THEN TRUE
                         ELSE IF top = "make" THEN FALSE
                         ELSE newModelDetected
                    /\ thumbnailURI' = FALSE
                    /\ mediumURI' = FALSE
                    /\ largeURI' = FALSE
                    /\ UNCHANGED <<pc, stderr>>

\* ---------------------------------------------------------------- dec.Token()
\* io.EOF: the decoder reports the end of the data only with every element
\* closed; the end of the data inside an open element is a token error
TokenEOF ==
    /\ pc = "parse"
    /\ feed # <<>> => pos = Len(feed)
    /\ stack = <<>>
    /\ pc' = "dir"
    /\ UNCHANGED <<graph, parser, output, stderr>>

\* any other error of dec.Token(): os.Exit(1)
TokenError ==
    /\ pc = "parse"
    /\ Exit("reading XML data body token")
    /\ UNCHANGED <<graph, parser, output>>

\* ---------------------------------------------------------------- start of main
\* len(os.Args) <= 2: the usage message and a plain return
CheckArgs(argc) ==
    /\ pc = "args"
    /\ pc' = IF argc <= 2 THEN "usage" ELSE "fetch"
    /\ UNCHANGED <<graph, parser, output, stderr>>

\* http.Get: an error is fatal
HttpGet(ok) ==
    /\ pc = "fetch"
    /\ IF ok THEN pc' = "parse" /\ UNCHANGED stderr
       ELSE Exit("fetching XML works data")
    /\ UNCHANGED <<graph, parser, output>>

\* ---------------------------------------------------------------- static site
\* thumbnails shown on one page
MaxThumbs == 10

Html == <<".", "h", "t", "m", "l">>

IndexFile == <<"i", "n", "d", "e", "x">> \o Html

NoMakeFile == <<"n", "o", "m", "a", "k", "e">> \o Html

\* mutant: the loop without its break
CapThumbs_NoCap(uris) == uris

\* the loop "imgCount++; if imgCount >= 10 { break }"
CapThumbs(uris) ==
    SubSeq(uris, 1, IF Len(uris) < MaxThumbs THEN Len(uris) ELSE MaxThumbs)

\* html.EscapeString: the five characters it replaces by entities
EscapeChar(c) ==
    CASE c = "&" -> <<"&", "a", "m", "p", ";">>
      [] c = "'" -> <<"&", "#", "3", "9", ";">>
      [] c = "<" -> <<"&", "l", "t", ";">>
      [] c = ">" -> <<"&", "g", "t", ";">>
      [] c = "\"" -> <<"&", "#", "3", "4", ";">>
      [] OTHER -> <<c>>

RECURSIVE EscapeString(_)
EscapeString(s) ==
    IF s = <<>> THEN <<>> ELSE EscapeChar(Head(s)) \o EscapeString(Tail(s))

\* the img src values of the works ws (indexes into works)
URIsOf(ws) == [n \in 1..Len(ws) |-> EscapeString(works[ws[n]].URISmall)]

\* the works of ws whose make has the name of make mk
OfMake(ws, mk) ==
    SelectSeq(ws, LAMBDA w : works[w].WMake # 0
                             /\ makes[works[w].WMake].Name = makes[mk].Name)

\* the (make, model) pairs of the model page loop, in its order
RECURSIVE ModelPagesFrom(_)
ModelPagesFrom(mk) ==
    IF mk > Len(makes) THEN <<>>
    ELSE [n \in 1..Len(makes[mk].Models) |-> <<mk, makes[mk].Models[n]>>]
         \o ModelPagesFrom(mk + 1)

ModelPages == ModelPagesFrom(1)

IndexPage ==
    [path   |-> IndexFile,
     title  |-> <<>>,
     heading |-> <<>>,
     nav    |-> [n \in 1..Len(makes) |-> <<EscapeString(makes[n].PageURL),
                                           EscapeString(makes[n].Name)>>],
     back   |-> <<>>,
     nomake |-> Len(worksSM) > 0,
     thumbs |-> CapThumbs(URIsOf([n \in 1..Len(works) |-> n])),
     written |-> TRUE]

MakePage(mk) ==
    [path   |-> makes[mk].PageURL \o Html,
     title  |-> EscapeString(makes[mk].Name),
     heading |-> makes[mk].Name,
     nav    |-> [n \in 1..Len(makes[mk].Models) |->
                    <<EscapeString(models[makes[mk].Models[n]].PageURL),
                      EscapeString(models[makes[mk].Models[n]].Name)>>],
     back   |-> <<>>,
     nomake |-> FALSE,
     thumbs |-> CapThumbs(URIsOf(OfMake(makes[mk].Works, mk))),
     written |-> TRUE]

NoMakePage(w) ==
    [path   |-> NoMakeFile,
     title  |-> <<>>,
     heading |-> <<>>,
     nav    |-> <<>>,
     back   |-> <<>>,
     nomake |-> FALSE,
     thumbs |-> <<EscapeString(works[w].URISmall)>>,
     written |-> TRUE]

ModelPage(mk, md) ==
    [path   |-> models[md].PageURL \o Html,
     title  |-> EscapeString(models[md].Name),
     heading |-> EscapeString(models[md].Name),
     nav    |-> <<>>,
     back   |-> EscapeString(makes[mk].PageURL),
     nomake |-> FALSE,
     thumbs |-> CapThumbs(URIsOf(OfMake(models[md].Works, mk))),
     written |-> TRUE]

\* a file os.Create made and WriteString did not fill
Unwritten(page) ==
    [page EXCEPT !.title = <<>>, !.heading = <<>>, !.nav = <<>>, !.back = <<>>,
                 !.nomake = FALSE, !.thumbs = <<>>, !.written = FALSE]

\* the phase after the page loop of a phase that has no page left
AfterNoMake == IF Len(ModelPages) > 0 THEN "modelpages" ELSE "done"

AfterMakes == IF Len(worksSM) > 0 THEN "nomake" ELSE AfterNoMake

AfterIndex == IF Len(makes) > 0 THEN "makes" ELSE AfterMakes

IOResults == {"ok", "createErr", "writeErr"}

\* os.Create fails when the directory is missing, and may fail anyway
CanHappen(io) == dirOK \/ io = "createErr"

\* fileExists and os.MkdirAll, whose result is not looked at
CheckOutputDir(stat, mkdirOK) ==
    /\ pc = "dir"
    /\ IF stat = "error"
       THEN Exit("checking output directory") /\ UNCHANGED dirOK
       ELSE /\ pc' = "index"
            /\ dirOK' = IF stat = "exists" THEN TRUE ELSE mkdirOK
            /\ UNCHANGED stderr
    /\ UNCHANGED <<graph, parser, files, idx>>

\* one page whose create and write errors are both fatal
FatalPage(page, what, io, nextpc, nextk) ==
    /\ CanHappen(io)
    /\ files' = CASE io = "ok" -> Append(files, page)
                  [] io = "writeErr" -> Append(files, Unwritten(page))
                  [] io = "createErr" -> files
    /\ IF io = "ok"
       THEN pc' = nextpc /\ idx' = nextk /\ UNCHANGED stderr
       ELSE /\ Exit(IF io = "createErr" THEN "creating " \o what
                    ELSE "writing " \o what)
            /\ UNCHANGED idx
    /\ UNCHANGED <<graph, parser, dirOK>>

WriteIndex(io) ==
    /\ pc = "index"
    /\ FatalPage(IndexPage, "index", io, AfterIndex, 1)

WriteMakePage(io) ==
    /\ pc = "makes"
    /\ FatalPage(MakePage(idx), "make page", io,
                 IF idx < Len(makes) THEN "makes" ELSE AfterMakes,
                 IF idx < Len(makes) THEN idx + 1 ELSE 1)

\* mutant: the loop takes each work off the no-make list as it writes its page
WriteNoMakePage_Drain(io) ==
    /\ pc = "nomake"
    /\ CanHappen(io)
    /\ files' = CASE io = "ok" -> Append(files, NoMakePage(worksSM[1]))
                  [] io = "writeErr" ->
                       Append(files, Unwritten(NoMakePage(worksSM[1])))
                  [] io = "createErr" -> files
    /\ worksSM' = Tail(worksSM)
    /\ IF io = "ok"
       THEN /\ pc' = IF Len(worksSM) > 1 THEN "nomake" ELSE AfterNoMake
            /\ UNCHANGED stderr
       ELSE Exit("generic works page")
    /\ UNCHANGED <<works, makes, models, parser, dirOK, idx>>

WriteNoMakePage(io) ==
    /\ pc = "nomake"
    /\ FatalPage(NoMakePage(worksSM[idx]), "generic works page", io,
                 IF idx < Len(worksSM) THEN "nomake" ELSE AfterNoMake,
                 IF idx < Len(worksSM) THEN idx + 1 ELSE 1)

\* the model page loop checks os.Create and not WriteString
WriteModelPage(io) ==
    /\ pc = "modelpages"
    /\ CanHappen(io)
    /\ LET page == ModelPage(ModelPages[idx][1], ModelPages[idx][2])
       IN  files' = CASE io = "ok" -> Append(files, page)
                      [] io = "writeErr" -> Append(files, Unwritten(page))
                      [] io = "createErr" -> files
    /\ IF io = "createErr"
       THEN Exit("creating model page") /\ UNCHANGED idx
       ELSE IF idx < Len(ModelPages)
       THEN pc' = "modelpages" /\ idx' = idx + 1 /\ UNCHANGED stderr
       ELSE pc' = "done" /\ UNCHANGED <<idx, stderr>>
    /\ UNCHANGED <<graph, parser, dirOK>>

\* ---------------------------------------------------------------- given data bodies
\* longest camera name of the given data bodies
MaxNameLen == 4

\* the characters of the camera names of the given data bodies
NameAlphabet == {"a", "Z", "7", "<", " "}

CameraNames == UNION {[1..n -> NameAlphabet] : n \in 1..MaxNameLen}

\* <name>text</name>
Element(name, text) ==
    <<Token("start", name, <<>>, <<>>), Token("text", "", <<>>, text),
      Token("end", name, <<>>, <<>>)>>

\* <url type="small">text</url>
SmallURL(text) ==
    <<Token("start", "url", <<"small">>, <<>>), Token("text", "", <<>>, text),
      Token("end", "url", <<>>, <<>>)>>

\* <work>fields</work>
WorkElement(fields) ==
    <<Token("start", "work", <<>>, <<>>)>> \o fields
    \o <<Token("end", "work", <<>>, <<>>)>>

Nikon == <<"N", "i", "k", "o", "n">>

D90 == <<"D", "9", "0">>

AJpg == <<"a", ".", "j", "p", "g">>

BJpg == <<"b", ".", "j", "p", "g">>

AThumb == <<"a", "-", "t", "h", "u", "m", "b", ".", "j", "p", "g">>

BThumb == <<"b", "-", "t", "h", "u", "m", "b", ".", "j", "p", "g">>

\* Work B of the two scenarios: <make></make> holds no character data
WorkB ==
    WorkElement(Element("id", <<"2">>) \o Element("filename", BJpg)
                \o <<Token("start", "make", <<>>, <<>>),
                     Token("end", "make", <<>>, <<>>)>>
                \o SmallURL(BThumb))

\* the two works with Work A's make before its model
MakeFirstFeed ==
    WorkElement(Element("id", <<"1">>) \o Element("filename", AJpg)
                \o Element("make", Nikon) \o Element("model", D90)
                \o SmallURL(AThumb))
    \o WorkB

\* the two works with Work A's model before its make
ModelFirstFeed ==
    WorkElement(Element("id", <<"1">>) \o Element("filename", AJpg)
                \o Element("model", D90) \o Element("make", Nikon)
                \o SmallURL(AThumb))
    \o WorkB

\* a work without a make, then two works of the make and the model called n
NameFeed(n) ==
    WorkElement(<<>>)
    \o WorkElement(Element("model", n) \o Element("make", n))
    \o WorkElement(Element("model", n) \o Element("make", n))

Letters == <<"a", "b", "c", "d", "e", "f", "g", "h", "i", "j", "k", "l", "m">>

\* the small URL of the n-th work of the feed of many works
ThumbOf(n) == <<"t", Letters[n]>>

\* the n-th work of the feed of many works: model M, the given make, a small URL
ManyWork(n, make) ==
    WorkElement(Element("model", <<"M">>) \o Element("make", make)
                \o SmallURL(ThumbOf(n)))

RECURSIVE ManyWorks(_)
ManyWorks(n) == IF n = 0 THEN <<>> ELSE ManyWorks(n - 1) \o ManyWork(n, <<"K">>)

\* one work more than a page shows of make K, one work of make Z and one
\* work without a make
ManyWorksFeed ==
    ManyWorks(MaxThumbs + 1) \o ManyWork(MaxThumbs + 2, <<"Z">>)
    \o WorkElement(SmallURL(ThumbOf(MaxThumbs + 3)))

\* one work of the model D90 and of the make called nomake
MakeNamedNoMakeFeed ==
    WorkElement(Element("model", D90)
                \o Element("make", <<"n", "o", "m", "a", "k", "e">>))

\* one work without a make, then one work of the make Nikon and of the model
\* called nomake
ModelNamedNoMakeFeed ==
    WorkElement(SmallURL(AThumb))
    \o WorkElement(Element("model", <<"n", "o", "m", "a", "k", "e">>)
                   \o Element("make", Nikon) \o SmallURL(BThumb))

\* one work whose id is 2^63, one more than the largest int
IdRangeFeed == WorkElement(Element("id", MinIntDigits))

\* a make text of a no-break space and an ideographic space
BlankMake == <<"U+00A0", "U+3000">>

\* one work whose id 7 and whose make text are wrapped in or made of white
\* space outside ASCII, then one work whose id is 7 followed by an e acute
UnicodeSpaceFeed ==
    WorkElement(Element("id", <<"U+00A0", "7", "U+2003">>)
                \o Element("make", BlankMake))
    \o WorkElement(Element("id", <<"7", "U+00E9">>))

\* a model 7 outside any work, then one work with the make A and, after it,
\* the model X
OutsideModelFeed ==
    Element("model", <<"7">>)
    \o WorkElement(Element("make", <<"A">>) \o Element("model", <<"X">>))

Feeds ==
    {MakeFirstFeed, ModelFirstFeed, ManyWorksFeed, MakeNamedNoMakeFeed,
     ModelNamedNoMakeFeed, IdRangeFeed, UnicodeSpaceFeed, OutsideModelFeed}
    \cup {NameFeed(n) : n \in CameraNames}

\* the character data the decoder may deliver
FeedTexts == Texts \cup {feed[n].text : n \in 1..Len(feed)}

Next ==
    \/ \E name \in Names : \E attrs \in AttrLists :
          (name = "url" \/ attrs = <<>>) /\ StartElement(name, attrs)
    \/ \E name \in Names : EndElement(name)
    \/ \E text \in FeedTexts : CharData(text)
    \/ TokenEOF
    \/ TokenError
    \/ \E argc \in 1..3 : CheckArgs(argc)
    \/ \E ok \in BOOLEAN : HttpGet(ok)
    \/ \E stat \in {"exists", "missing", "error"} : \E mkdirOK \in BOOLEAN :
          CheckOutputDir(stat, mkdirOK)
    \/ \E io \in IOResults : WriteIndex(io)
    \/ \E io \in IOResults : WriteMakePage(io)
    \/ \E io \in IOResults : WriteNoMakePage(io)
    \/ \E io \in IOResults : WriteModelPage(io)

Spec == Init /\ [][Next]_vars

\* the program run on one of the given data bodies
InitFeed == GivenBody(Feeds) /\ Start

SpecFeed == InitFeed /\ [][Next]_vars

\* the program run on any tokens or on one of the given data bodies
InitAll == (AnyBody(MaxTokens) \/ GivenBody(Feeds)) /\ Start

SpecAll == InitAll /\ [][Next]_vars

\* the same with any tokens up to one fewer
InitFair == (AnyBody(MaxTokens - 1) \/ GivenBody(Feeds)) /\ Start

\* main() is one sequential process: it takes its next step whenever it has one
SpecFair == InitFair /\ [][Next]_vars /\ WF_vars(Next)

\* ---------------------------------------------------------------- properties
\* the token loop ended at io.EOF: the parse is complete
ParseComplete == pc \in {"dir", "index", "makes", "nomake", "modelpages", "done"}

Range(seq) == {seq[n] : n \in 1..Len(seq)}

Count(x, seq) == Cardinality({n \in 1..Len(seq) : seq[n] = x})

WorkIds == 1..Len(works)

\* the works found in the works list of some make
InSomeMake == UNION {Range(makes[m].Works) : m \in 1..Len(makes)}

\* C1: no-make partition: after a completed parse the no-make list and the
\* union of the makes' works lists are disjoint and together hold exactly the
\* works of the works list.
C1_NoMakePartition ==
    ParseComplete =>
        /\ Range(worksSM) \cap InSomeMake = {}
        /\ Range(worksSM) \cup InSomeMake = WorkIds

\* C2: graph completeness, make side: after a completed parse every work with
\* a make is exactly once in that make's works list, with or without a model,
\* and in no other make's works list.
C2_MakeCompleteness ==
    ParseComplete =>
        \A w \in WorkIds : \A m \in 1..Len(makes) :
            Count(w, makes[m].Works) = IF works[w].WMake = m THEN 1 ELSE 0

\* C3: graph completeness, model side: after a completed parse every work with
\* a model is exactly once in that model's works list and in no other model's
\* works list.
C3_ModelCompleteness ==
    ParseComplete =>
        \A w \in WorkIds : \A md \in 1..Len(models) :
            Count(w, models[md].Works) = IF works[w].WModel = md THEN 1 ELSE 0

\* a completed parse with two models that have works, every work with a
\* model listed once under its model and not under the other
C3_Witness ==
    /\ ParseComplete
    /\ \E md1, md2 \in 1..Len(models) :
          /\ md1 # md2
          /\ models[md1].Works # <<>>
          /\ models[md2].Works # <<>>
          /\ \E w \in WorkIds :
                /\ works[w].WModel = md1
                /\ Count(w, models[md1].Works) = 1
                /\ Count(w, models[md2].Works) = 0

\* C4: make/model consistency: a work with a model has a make, and the model's
\* owning make is that make, whatever make and model tokens the work holds.
C4_ModelOfSameMake ==
    \A w \in WorkIds :
        works[w].WModel # 0 =>
            /\ works[w].WMake # 0
            /\ models[works[w].WModel].MMake = works[w].WMake

\* the end tag named name does not close the innermost open element
BadEnd(name) == Len(stack) = 0 \/ stack[Len(stack)] # name

\* C5: malformed input rejection: an end tag that arrives with the stack empty,
\* or that names another element than the one popped, aborts the run, and no
\* output file is written then or later in the run.
C5_MalformedRejected ==
    [][/\ \A name \in Names :
             (EndElement(name) /\ BadEnd(name)) => (pc' = "exit1" /\ files' = <<>>)
       /\ pc = "exit1" => files' = files]_vars

\* a run aborted by an end tag that does not match, after works were read
C5_Witness ==
    /\ pc = "exit1"
    /\ stderr = "closing without matching opener"
    /\ Len(works) > 0
    /\ files = <<>>

\* the paths whose latest os.Create was followed by a successful write
LastCreate(path) ==
    CHOOSE n \in 1..Len(files) :
        /\ files[n].path = path
        /\ \A later \in (n + 1)..Len(files) : files[later].path # path

WrittenPaths ==
    {path \in {files[n].path : n \in 1..Len(files)} : files[LastCreate(path)].written}

\* every page of the site is on disk
SiteComplete ==
    /\ IndexFile \in WrittenPaths
    /\ \A m \in 1..Len(makes) : makes[m].PageURL \o Html \in WrittenPaths
    /\ \A md \in 1..Len(models) : models[md].PageURL \o Html \in WrittenPaths
    /\ Len(worksSM) > 0 => NoMakeFile \in WrittenPaths

\* C6: all-or-nothing output: a run that ends without an error has written the
\* full site, and a run that ends with an error has written no output file.
C6_AllOrNothing ==
    /\ pc = "done" => SiteComplete
    /\ pc \in {"exit1", "panic", "usage"} => WrittenPaths = {}

\* a text token is about to be routed to a field the program knows
RecognizedField ==
    \/ Top \in {"id", "filename", "make", "model"}
    \/ Top = "url" /\ (thumbnailURI \/ mediumURI \/ largeURI)

\* C7: strict orphan-field policy: a text token of a recognized field that
\* arrives while no work is open aborts the run and changes no work, no
\* registry and not the pending-model state.
C7_StrictOrphanPolicy ==
    [][\A text \in Texts :
          (CharData(text) /\ newWork = 0 /\ RecognizedField) =>
              /\ pc' = "exit1"
              /\ UNCHANGED <<works, makes, models, worksSM,
                             newModelDetected, newModel>>]_vars

\* C8: a work is immutable after finalization: once its work end has been
\* processed no later token changes any of its fields.
C8_ImmutableAfterFinalization ==
    [][\A w \in finalized : works'[w] = works[w]]_vars

\* no two makes of the registry have the same name
C9_MakesUnique ==
    \A a, b \in 1..Len(makes) : makes[a].Name = makes[b].Name => a = b

\* what one step does to the registry, and a make token to the work's make
C9_Step ==
    /\ Len(makes') \in {Len(makes), Len(makes) + 1}
    /\ \A a \in 1..Len(makes) :
          /\ makes'[a].Name = makes[a].Name
          /\ makes'[a].PageURL = makes[a].PageURL
    /\ \A text \in Texts :
          (CharData(text) /\ Top = "make" /\ newWork # 0) =>
              LET name == IF TrimSpace(text) = <<>> THEN GenericMake
                          ELSE TrimSpace(text)
                  m    == works'[newWork].WMake
              IN  /\ m # 0
                  /\ makes'[m].Name = name
                  /\ Len(makes') = Len(makes) +
                        IF \E a \in 1..Len(makes) : makes[a].Name = name
                        THEN 0 ELSE 1

\* C9: idempotent make interning: the registry holds one Make per normalized
\* name; a make token read inside a work sets the work's make to the Make of
\* its normalized name, growing the registry by one when the name is new and
\* by nothing otherwise; a Make keeps its name, slug and position.
C9_IdempotentMakeInterning == []C9_MakesUnique /\ [][C9_Step]_vars

\* two works whose make texts normalize to one name share the one Make
C9_Witness ==
    /\ Len(makes) = 1
    /\ \E w1, w2 \in WorkIds :
          /\ w1 # w2
          /\ works[w1].WMake = 1
          /\ works[w2].WMake = 1

\* the models of one make have distinct names
C10_ModelsUnique ==
    \A m \in 1..Len(makes) : \A a, b \in 1..Len(makes[m].Models) :
        models[makes[m].Models[a]].Name = models[makes[m].Models[b]].Name => a = b

\* every model of a make's list has that make as its owning make
C10_OwnList ==
    \A m \in 1..Len(makes) : \A a \in 1..Len(makes[m].Models) :
        models[makes[m].Models[a]].MMake = m

\* a make token with a model pending gives the work a model of that make
C10_Step ==
    \A text \in Texts :
        (CharData(text) /\ Top = "make" /\ newWork # 0 /\ newModelDetected) =>
            LET md == works'[newWork].WModel
                m  == works'[newWork].WMake
            IN  /\ md # 0
                /\ models'[md].Name =
                      (IF newModel = <<>> THEN GenericModel ELSE newModel)
                /\ models'[md].MMake = m
                /\ md \in Range(makes'[m].Models)

\* C10: model interning is scoped to the owning make: the models of one make
\* have distinct names, every model is in the list of its owning make only,
\* and a pending model resolved at a make token becomes a model of that make,
\* so one name under two makes gives two Model instances.
C10_ModelInterningScoped ==
    [](C10_ModelsUnique /\ C10_OwnList) /\ [][C10_Step]_vars

\* one model name under two makes: two Model instances, each in its make's list
C10_Witness ==
    \E md1, md2 \in 1..Len(models) :
        /\ md1 # md2
        /\ models[md1].Name = models[md2].Name
        /\ models[md1].MMake # models[md2].MMake
        /\ md1 \in Range(makes[models[md1].MMake].Models)
        /\ md2 \in Range(makes[models[md2].MMake].Models)

\* the models of make m (of the state before the step) that are called name
ModelsNamed(m, name) ==
    IF m <= Len(makes)
    THEN {md \in Range(makes[m].Models) : models[md].Name = name}
    ELSE {}

\* a make token inside an open work, with and without a model pending
C11_Step ==
    \A text \in FeedTexts :
        (CharData(text) /\ Top = "make" /\ newWork # 0) =>
            LET m     == works'[newWork].WMake
                md    == works'[newWork].WModel
                name  == ModelName(newModel)
                known == ModelsNamed(m, name)
            IN  IF newModelDetected
                THEN /\ m # 0
                     /\ md # 0
                     /\ models'[md].Name = name
                     /\ models'[md].MMake = m
                     /\ md \in Range(makes'[m].Models)
                     /\ IF known # {}
                        THEN md \in known /\ Len(models') = Len(models)
                        ELSE md = Len(models) + 1 /\ Len(models') = Len(models) + 1
                     /\ ~newModelDetected'
                ELSE /\ md = works[newWork].WModel
                     /\ \A a \in 1..Len(makes) : makes'[a].Models = makes[a].Models
                     /\ \A a \in (Len(makes) + 1)..Len(makes') :
                           makes'[a].Models = <<>>
                     /\ models' = models
                     /\ ~newModelDetected'

\* C11: deferred model resolution: a make token inside an open work with a
\* model pending resolves the pending name to the model of that name under
\* exactly that make, or creates it there, makes it the work's model and
\* leaves no model pending; with no model pending the make token leaves the
\* work's model and every make's models list unchanged.
C11_DeferredResolution == [][C11_Step]_vars

\* inside the make element of an open work whose pending model was resolved
\* under the work's make
C11_Witness ==
    /\ Top = "make"
    /\ newWork # 0
    /\ ~newModelDetected
    /\ works[newWork].WModel # 0
    /\ models[works[newWork].WModel].MMake = works[newWork].WMake
    /\ works[newWork].WModel \in Range(makes[works[newWork].WMake].Models)

\* a step that sets a URL field of work w or lowers a URL flag is a text token
\* inside a url element, for a field inside the open work w, with the flag of
\* that field raised, and it stores the trimmed text and lowers the flag
C12_Step ==
    LET InURL(w, raised, old, new, lowered) ==
            \E text \in FeedTexts :
                /\ CharData(text)
                /\ Top = "url"
                /\ raised
                /\ lowered
                /\ w # 0 => (newWork = w /\ new = TrimSpace(text))
    IN  /\ \A w \in 1..Len(works) :
              /\ works'[w].URISmall # works[w].URISmall =>
                    InURL(w, thumbnailURI, works[w].URISmall, works'[w].URISmall,
                          ~thumbnailURI')
              /\ works'[w].URIMedium # works[w].URIMedium =>
                    InURL(w, mediumURI, works[w].URIMedium, works'[w].URIMedium,
                          ~mediumURI')
              /\ works'[w].URILarge # works[w].URILarge =>
                    InURL(w, largeURI, works[w].URILarge, works'[w].URILarge,
                          ~largeURI')
        /\ (thumbnailURI /\ ~thumbnailURI') => InURL(0, TRUE, <<>>, <<>>, TRUE)
        /\ (mediumURI /\ ~mediumURI') => InURL(0, TRUE, <<>>, <<>>, TRUE)
        /\ (largeURI /\ ~largeURI') => InURL(0, TRUE, <<>>, <<>>, TRUE)

\* C12: URL routing: a URL field of a work is set only from a text token read
\* inside the url element of that open work whose start tag raised the flag
\* of that field, the assignment lowers the flag, and a raised flag is
\* consumed only by a text token at the depth of the url element.
C12_URLRouting == [][C12_Step]_vars

\* the works found in the works list of some model
InSomeModel == UNION {Range(models[md].Works) : md \in 1..Len(models)}

\* the works that are members of some collection of the graph
InGraph == WorkIds \cup Range(worksSM) \cup InSomeMake \cup InSomeModel

\* C13: atomic finalization: a work is a member of no collection of the graph
\* (the works list, a make's works, a model's works, the no-make list) before
\* its work end token has been processed: every member of a collection is a
\* work whose end token was processed.
C13_AtomicFinalization == InGraph \subseteq finalized

\* how often work w is found in the no-make list, in the works list of make m
\* and in the works list of model md
InNoMake(w) == Count(w, worksSM)

InMake(w, m) == IF m \in 1..Len(makes) THEN Count(w, makes[m].Works) ELSE 0

InModel(w, md) == IF md \in 1..Len(models) THEN Count(w, models[md].Works) ELSE 0

\* no make has a blank name, make names carry no surrounding whitespace, and
\* a work with a make is not on the no-make list
C14_Normalized ==
    /\ \A m \in 1..Len(makes) :
          makes[m].Name # <<>> /\ TrimSpace(makes[m].Name) = makes[m].Name
    /\ \A w \in Range(worksSM) : works[w].WMake = 0

\* a make token inside an open work gives the work the make named by the
\* trimmed text, or by the generic label when the trimmed text is empty, and
\* it is the make already registered under that name when there is one
C14_Step ==
    \A text \in FeedTexts :
        (CharData(text) /\ Top = "make" /\ newWork # 0) =>
            LET name == IF TrimSpace(text) = <<>> THEN GenericMake
                        ELSE TrimSpace(text)
                m    == works'[newWork].WMake
            IN  /\ m # 0
                /\ makes'[m].Name = name
                /\ \A a \in 1..Len(makes) : makes[a].Name = name => a = m

\* C14: blank make normalization: a make token inside an open work whose text
\* is empty after trimming gives the work a non-null make named by the fixed
\* generic label, so the work is not treated as a work without a make, and
\* names that differ only in surrounding whitespace give the same Make.
C14_BlankMakeNormalized == []C14_Normalized /\ [][C14_Step]_vars

\* a finished work of the make named by the generic label, not on the no-make
\* list, whose make text was white space outside ASCII
C14_Witness ==
    \E w \in finalized :
        /\ works[w].WMake # 0
        /\ makes[works[w].WMake].Name = GenericMake
        /\ w \notin Range(worksSM)
        /\ works[w].ID = 7
        /\ \E n \in 1..pos : feed # <<>> /\ feed[n].text = BlankMake

\* s is an optional sign followed by one or more decimal digits
IsInteger(s) ==
    LET ds == IF s # <<>> /\ Head(s) \in {"+", "-"} THEN Tail(s) ELSE s
    IN  ds # <<>> /\ \A n \in 1..Len(ds) : ds[n] \in Digits

\* s is the numeral of an integer the id of a work can hold (an int, 64 bits)
IsInt(s) ==
    /\ IsInteger(s)
    /\ InIntRange(Head(s) = "-", IF Head(s) \in {"+", "-"} THEN Tail(s) ELSE s)

\* what the step of an id token does: fatal when its trimmed text is no
\* integer, and the id of the open work set when it is one
C15_Outcome(text, integer) ==
    IF ~integer
    THEN /\ pc' = "exit1"
         /\ stderr' = "converting Work ID"
         /\ works' = works
         /\ files' = <<>>
    ELSE newWork # 0 =>
            /\ pc' = "parse"
            /\ works'[newWork].ID = Atoi(TrimSpace(text)).val

C15_Step ==
    \A text \in FeedTexts :
        (CharData(text) /\ Top = "id") =>
            C15_Outcome(text, IsInteger(TrimSpace(text)))

\* C15: id format error: an id text token whose trimmed text is not an
\* integer aborts the run, leaves the id of the work unchanged and no output
\* file is written then or later; an id text token that is an integer, read
\* inside an open work, sets the id of the current work to that integer.
C15_IdFormatError ==
    /\ [](stderr = "converting Work ID" => pc = "exit1" /\ files = <<>>)
    /\ [][C15_Step]_vars

C15_StepInRange ==
    \A text \in FeedTexts :
        (CharData(text) /\ Top = "id") =>
            C15_Outcome(text, IsInt(TrimSpace(text)))

\* C15, amended: the integers an id can be are those of the type int (from
\* -2^63 to 2^63 - 1): an id text token whose trimmed text is not the numeral
\* of such an integer aborts the run, leaves the id of the work unchanged and
\* no output file is written then or later; one whose trimmed text is such a
\* numeral, read inside an open work, sets the id of the current work to that
\* integer.
C15_IdFormatErrorInRange ==
    /\ [](stderr = "converting Work ID" => pc = "exit1" /\ files = <<>>)
    /\ [][C15_StepInRange]_vars

\* the run aborted at the id token 2^63 of an open work, whose id is still
\* unset
C15_Witness ==
    /\ pc = "exit1"
    /\ stderr = "converting Work ID"
    /\ Top = "id"
    /\ newWork # 0
    /\ works[newWork].ID = -1
    /\ files = <<>>
    /\ feed # <<>>
    /\ feed[pos].text = MinIntDigits

\* the step processes the end tag of the open work
WorkEnds == newWork # 0 /\ newWork \notin finalized /\ newWork \in finalized'

\* the step creates no Model and changes no make's models list
NoModelAdded ==
    /\ Len(models') = Len(models)
    /\ \A m \in 1..Len(makes) : makes'[m].Models = makes[m].Models
    /\ \A m \in (Len(makes) + 1)..Len(makes') : makes'[m].Models = <<>>

\* C16: unresolved model: when a model text token was read and no make text
\* token followed it before the work end, so that a model is still pending
\* at the work end, the work is finalized with a null model and no Model is
\* created or added to a make's models list.
C16_UnresolvedModel ==
    [][(WorkEnds /\ newModelDetected) =>
          (works'[newWork].WModel = 0 /\ NoModelAdded)]_vars

\* the model of a work is set only by a make token read with a model
\* pending while that work is the open work, which sets the model of no
\* other work; any other step, a model token and a work end among them, sets
\* no work's model, creates no Model and changes no make's models list; a
\* new work has no model; a work end drops the pending model
C16_Step ==
    /\ IF \E text \in FeedTexts :
             CharData(text) /\ Top = "make" /\ newModelDetected /\ newWork # 0
       THEN \A w \in 1..Len(works) :
               w # newWork => works'[w].WModel = works[w].WModel
       ELSE /\ NoModelAdded
            /\ \A w \in 1..Len(works) : works'[w].WModel = works[w].WModel
            /\ \A w \in (Len(works) + 1)..Len(works') : works'[w].WModel = 0
    /\ WorkEnds => (~newModelDetected' /\ newModel' = <<>>)

\* C16 as amended: when a model text token was read inside a work and no make
\* text token followed it before the work end, the work is finalized with
\* the model it had before that model token (null unless an earlier make
\* token of the same work resolved a model for it), the pending model is
\* dropped, and no Model is created or added to a make's models list because
\* of that model token.
C16_PendingModelDropped == [][C16_Step]_vars

\* at the end of an open work for which a make token resolved a model and
\* which has a model of another name pending
C16_Witness ==
    /\ Top = "work"
    /\ newWork # 0
    /\ newModelDetected
    /\ works[newWork].WModel # 0
    /\ models[works[newWork].WModel].Name # ModelName(newModel)

\* the file of the given name, as the last os.Create of that name left it
FileNamed(path) == files[LastCreate(path)]

IsWritten(path) == path \in WrittenPaths /\ FileNamed(path).written

\* C17: end-to-end scenario: for Work A (id 1, a.jpg, make Nikon, model D90,
\* small URL a-thumb.jpg) and Work B (id 2, b.jpg, blank make, small URL
\* b-thumb.jpg), fields in the listed order, the finished run has one Make
\* Nikon with slug Nikon, one Model D90 under it, files nikon.html and
\* d90.html with one thumbnail each, nomake.html with the thumbnail of Work B
\* and index.html with both thumbnails and a dropdown of Nikon and the
\* no-make option.
C17_EndToEnd ==
    (/\ feed = MakeFirstFeed
     /\ pc = "done"
     /\ \A n \in 1..Len(files) : files[n].written) =>
        /\ Len(makes) = 1
        /\ makes[1].Name = Nikon
        /\ makes[1].PageURL = Nikon
        /\ Len(models) = 1
        /\ models[1].Name = D90
        /\ makes[1].Models = <<1>>
        /\ IsWritten(<<"n", "i", "k", "o", "n">> \o Html)
        /\ FileNamed(<<"n", "i", "k", "o", "n">> \o Html).thumbs = <<AThumb>>
        /\ IsWritten(<<"d", "9", "0">> \o Html)
        /\ FileNamed(<<"d", "9", "0">> \o Html).thumbs = <<AThumb>>
        /\ IsWritten(NoMakeFile)
        /\ FileNamed(NoMakeFile).thumbs = <<BThumb>>
        /\ IsWritten(IndexFile)
        /\ FileNamed(IndexFile).thumbs = <<AThumb, BThumb>>
        /\ FileNamed(IndexFile).nav = <<<<Nikon, Nikon>>>>
        /\ FileNamed(IndexFile).nomake

\* the positions of name that hold an alphanumeric character or begin a run
\* of other characters
SlugPositions(name) ==
    SelectSeq([n \in 1..Len(name) |-> n],
              LAMBDA n : IsAlnum(name[n]) \/ n = 1 \/ IsAlnum(name[n - 1]))

\* name with every maximal run of non-alphanumeric characters replaced by
\* one "-" and the alphanumeric characters kept in order
SlugOf(name) ==
    LET at == SlugPositions(name)
    IN  [n \in 1..Len(at) |-> IF IsAlnum(name[at[n]]) THEN name[at[n]] ELSE "-"]

\* C18: slug derivation: the slug of every Make and of every Model is its
\* name with every maximal run of characters outside A-Z, a-z, 0-9 replaced
\* by exactly one "-" and the alphanumeric characters kept in order, by the
\* same rule for both, so equal names have equal slugs.
C18_SlugDerivation ==
    /\ \A m \in 1..Len(makes) : makes[m].PageURL = SlugOf(makes[m].Name)
    /\ \A md \in 1..Len(models) : models[md].PageURL = SlugOf(models[md].Name)

\* a Make and a Model of one name with a run of two non-alphanumeric
\* characters between alphanumeric ones, and the slug with one "-" for the run
C18_Witness ==
    \E m \in 1..Len(makes) : \E md \in 1..Len(models) :
        LET name == makes[m].Name
        IN  /\ models[md].Name = name
            /\ Len(name) = 4
            /\ IsAlnum(name[1]) /\ ~IsAlnum(name[2])
            /\ ~IsAlnum(name[3]) /\ IsAlnum(name[4])
            /\ makes[m].PageURL = <<name[1], "-", name[4]>>
            /\ models[md].PageURL = <<name[1], "-", name[4]>>

\* the entities html.EscapeString writes
Entities ==
    {<<"&", "a", "m", "p", ";">>, <<"&", "#", "3", "9", ";">>,
     <<"&", "l", "t", ";">>, <<"&", "g", "t", ";">>, <<"&", "#", "3", "4", ";">>}

\* s holds none of < > " ' and holds & only as the start of an entity
IsEscaped(s) ==
    \A n \in 1..Len(s) :
        /\ s[n] \notin {"<", ">", "\"", "'"}
        /\ s[n] = "&" =>
              \E e \in Entities :
                  n + Len(e) - 1 <= Len(s) /\ SubSeq(s, n, n + Len(e) - 1) = e

\* every text the page holds in its title, heading, options, links and images
Inserted(page) ==
    {page.title, page.heading, page.back}
    \cup Range(page.thumbs)
    \cup UNION {{page.nav[n][1], page.nav[n][2]} : n \in 1..Len(page.nav)}

\* C19: output escaping: every text taken from the feed (make name, model
\* name, slug, thumbnail URL) is HTML-escaped at every place where a
\* generated page holds it.
C19_OutputEscaped ==
    \A n \in 1..Len(files) : \A s \in Inserted(files[n]) : IsEscaped(s)

\* list old is list new without the entries new has at its end
IsPrefix(old, new) == Len(old) <= Len(new) /\ SubSeq(new, 1, Len(old)) = old

\* the entries of the list, works or models named by their place in the
\* order of creation, are in that order
Ascending(seq) == \A a, b \in 1..Len(seq) : a < b => seq[a] < seq[b]

\* every list of works or models is in the order its entries were created in
C20_Ordered ==
    /\ Ascending(worksSM)
    /\ \A m \in 1..Len(makes) :
          Ascending(makes[m].Works) /\ Ascending(makes[m].Models)
    /\ \A md \in 1..Len(models) : Ascending(models[md].Works)

\* every list grows at its end only: the works list by the work of a work
\* start tag, the makes by a make whose name was not seen before, a make's
\* models by a model resolved under it, the works lists by the work finished
C20_Step ==
    /\ IsPrefix([w \in 1..Len(works) |-> w], [w \in 1..Len(works') |-> w])
    /\ Len(works') > Len(works) =>
          /\ Len(works') = Len(works) + 1
          /\ newWork' = Len(works')
          /\ \E attrs \in AttrLists : StartElement("work", attrs)
    /\ IsPrefix([m \in 1..Len(makes) |-> makes[m].Name],
                [m \in 1..Len(makes') |-> makes'[m].Name])
    /\ \A m \in (Len(makes) + 1)..Len(makes') :
          \A a \in 1..Len(makes) : makes[a].Name # makes'[m].Name
    /\ \A m \in 1..Len(makes) :
          /\ IsPrefix(makes[m].Models, makes'[m].Models)
          /\ IsPrefix(makes[m].Works, makes'[m].Works)
          /\ makes'[m].Works \in {makes[m].Works, Append(makes[m].Works, newWork)}
    /\ \A md \in 1..Len(models) :
          /\ IsPrefix(models[md].Works, models'[md].Works)
          /\ models'[md].Works \in
                {models[md].Works, Append(models[md].Works, newWork)}

\* C20: orderings: the works list holds the works in the order of their
\* start tags, the makes are in the order their names were first seen, the
\* models of a make in the order they were first resolved under it, and the
\* works list of a make or a model holds its works in the order they were
\* finished.
C20_Orderings == []C20_Ordered /\ [][C20_Step]_vars

\* a make and a model that hold two finished works, the earlier one first
C20_Witness ==
    \E m \in 1..Len(makes) : \E md \in 1..Len(models) :
        /\ Len(makes[m].Works) = 2
        /\ makes[m].Works[1] < makes[m].Works[2]
        /\ models[md].Works = makes[m].Works
        /\ Range(makes[m].Works) \subseteq finalized

\* C21: works without a make stay out of the indexes: a work of the no-make
\* list has a null make and a null model and is in no make's works list and
\* in no model's works list, and the no-make list holds every finished work
\* without a make exactly once.
C21_NoMakeOutOfIndexes ==
    /\ \A w \in Range(worksSM) :
          /\ works[w].WMake = 0
          /\ works[w].WModel = 0
          /\ w \notin InSomeMake
          /\ w \notin InSomeModel
    /\ \A w \in finalized : works[w].WMake = 0 => Count(w, worksSM) = 1

\* a work on the no-make list next to a work on the lists of its make and model
C21_Witness ==
    /\ \E w \in Range(worksSM) : w \in finalized /\ works[w].WMake = 0
    /\ \E w \in finalized : w \in InSomeMake /\ w \in InSomeModel
    /\ newWork = 0

\* the img src values work w gives
ThumbsOfWorks(ws) == {EscapeString(works[w].URISmall) : w \in ws}

\* the page a step writes: the index page shows the first 10 works or all of
\* them, a make page at most 10 works of that make, a model page at most 10
\* works of that make and model
C22_Step ==
    (Len(files') > Len(files) /\ files'[Len(files')].written) =>
        LET page == files'[Len(files')]
            shown == IF Len(works) < 10 THEN Len(works) ELSE 10
        IN  CASE pc = "index" ->
                   page.thumbs =
                       [n \in 1..shown |-> EscapeString(works[n].URISmall)]
              [] pc = "makes" ->
                   /\ Len(page.thumbs) <= 10
                   /\ Range(page.thumbs) \subseteq
                         ThumbsOfWorks({w \in WorkIds : works[w].WMake = idx})
              [] pc = "modelpages" ->
                   /\ Len(page.thumbs) <= 10
                   /\ Range(page.thumbs) \subseteq
                         ThumbsOfWorks({w \in WorkIds :
                                          /\ works[w].WMake = ModelPages[idx][1]
                                          /\ works[w].WModel = ModelPages[idx][2]})
              [] OTHER -> TRUE

\* C22: thumbnail cap and filtering: the index page holds the thumbnails of
\* the first min(10, number of works) works in encounter order, a make page
\* at most 10 thumbnails, all of works of that make, and a model page at most
\* 10 thumbnails, all of works of that make and model.
C22_ThumbnailCap == [][C22_Step]_vars

\* more than 10 works, and the index page, a make page and a model page
\* written with 10 thumbnails each
C22_Witness ==
    /\ pc = "done"
    /\ Len(works) > 10
    /\ Len(FileNamed(IndexFile).thumbs) = 10
    /\ Len(FileNamed(<<"K">> \o Html).thumbs) = 10
    /\ \E n \in 1..Len(files) :
          files[n].path = <<"M">> \o Html /\ Len(files[n].thumbs) = 10

\* C23: the no-make page is generated exactly when needed: after a completed
\* run nomake.html has been written if and only if the no-make list is not
\* empty, and the dropdown of the index page holds the no-make option if and
\* only if nomake.html has been written.
C23_NoMakePageWhenNeeded ==
    pc = "done" =>
        /\ IsWritten(NoMakeFile) <=> Len(worksSM) > 0
        /\ IsWritten(IndexFile)
        /\ FileNamed(IndexFile).nomake <=> IsWritten(NoMakeFile)

\* main() has returned, exited or panicked
Terminated == pc \in {"done", "usage", "exit1", "panic"}

\* the run ended as Done, after the whole data body and the index page, or
\* it ended as Aborted
C24_Final ==
    /\ pc = "done" =>
          /\ stderr = ""
          /\ stack = <<>>
          /\ feed # <<>> => pos = Len(feed)
          /\ IsWritten(IndexFile)
    /\ stderr # "" => pc \in {"exit1", "panic"}

\* every step is taken before the end of the run; a step reads no token or
\* the one token after those read so far, and only the token loop reads
C24_Step ==
    /\ ~Terminated
    /\ pos' \in {pos, pos + 1}
    /\ pos' = pos + 1 =>
          /\ pc = "parse"
          /\ feed # <<>> =>
                LET tok == feed[pos + 1]
                IN  CASE tok.type = "start" -> StartElement(tok.name, tok.attrs)
                      [] tok.type = "end" -> EndElement(tok.name)
                      [] tok.type = "text" -> CharData(tok.text)
    /\ pc # "parse" => pos' = pos

\* C24: single pass and termination: for every finite token stream the run
\* terminates, each token is consumed exactly once and in order, the run ends
\* as Done (parse completed, site rendered) or as Aborted (a fatal error, an
\* erroring token source included), and after an abort no token is processed.
C24_SinglePassTermination ==
    /\ <>Terminated
    /\ []C24_Final
    /\ [][C24_Step]_vars

\* a run that read the whole given data body and ended as Done
C24_Witness ==
    /\ pc = "done"
    /\ feed # <<>>
    /\ pos = Len(feed)
    /\ Len(works) > 1

\* the run hit an error condition: too few arguments, an error that was
\* reported, or a file that was created and not written
ErrorHit ==
    \/ pc = "usage"
    \/ stderr # ""
    \/ \E n \in 1..Len(files) : ~files[n].written

\* C25: every error is loud: a run that hit an error condition (missing
\* arguments, source unavailable, token read error, structural error, id
\* format error, orphan field, output directory or file failure) ends with a
\* non-zero exit status.
C25_EveryErrorLoud == (Terminated /\ ErrorHit) => ExitStatus # 0

\* C26: the rendering phase does not mutate the graph: from the end of the
\* token loop to the end of the run the works list, the makes, the models,
\* their lists, the no-make list and every field of every Work, Make and
\* Model stay as they are.
C26_RenderingKeepsGraph ==
    [][ParseComplete => /\ works' = works
                        /\ makes' = makes
                        /\ models' = models
                        /\ worksSM' = worksSM]_vars

\* the site of a graph with a make, a model and a work without a make,
\* rendered to its last page
C26_Witness ==
    /\ pc = "done"
    /\ Len(makes) > 0
    /\ Len(models) > 0
    /\ Len(worksSM) > 0
    /\ Len(files) >= 4
    /\ \A n \in 1..Len(files) : files[n].written

\* C27: Idle/InWork state: in every state of a run that has not aborted a
\* work is in progress (newWork is not null) if and only if a work element is
\* open on the context stack, also when a work element is nested inside
\* another work element.
C27_IdleInWork ==
    (pc = "parse" \/ ParseComplete) =>
        (newWork # 0 <=> "work" \in Range(stack))

\* the names of the start tags among the first n tokens of the given data
\* body that no later one of these tokens closed, in opening order
RECURSIVE OpenPath(_)
OpenPath(n) ==
    IF n = 0 THEN <<>>
    ELSE LET path == OpenPath(n - 1)
             tok  == feed[n]
         IN  CASE tok.type = "start" -> Append(path, tok.name)
               [] tok.type = "end" -> SubSeq(path, 1, Len(path) - 1)
               [] OTHER -> path

\* while the tokens are read the context stack is the open path
C28_StackIsOpenPath == (feed # <<>> /\ pc = "parse") => stack = OpenPath(pos)

\* the step reads a start tag, an end tag, a text token
IsStart ==
    \/ \E name \in Names : StartElement(name, <<>>)
    \/ \E attrs \in AttrLists : StartElement("url", attrs)

IsEnd == \E name \in Names : EndElement(name)

IsText == \E text \in FeedTexts : CharData(text)

\* the fields of a work that the text of the element called name goes to
RoutedFields(name) ==
    CASE name = "id" -> {"ID"}
      [] name = "filename" -> {"FileName"}
      [] name = "make" -> {"WMake", "WModel"}
      [] name = "url" -> {"URISmall", "URIMedium", "URILarge"}
      [] OTHER -> {}

\* a start tag pushes its name and nothing else grows the stack; an end tag
\* pops one name, its own when it is accepted, and nothing else shrinks the
\* stack; a text token leaves the stack as it is and goes to the field named
\* by the innermost open element and to no other field
C28_Step ==
    /\ pc # "parse" => stack' = stack
    /\ IF Len(stack') > Len(stack)
       THEN \E name \in Names : \E attrs \in AttrLists :
                StartElement(name, attrs) /\ stack' = Append(stack, name)
       ELSE ~IsStart
    /\ IF Len(stack') < Len(stack)
       THEN \E name \in Names :
                /\ EndElement(name)
                /\ stack' = SubSeq(stack, 1, Len(stack) - 1)
                /\ pc' = "parse" => stack = Append(stack', name)
       ELSE IsEnd => (stack = <<>> /\ pc' = "exit1")
    /\ IF pos' = pos + 1 /\ stack' = stack /\ pc' = "parse"
       THEN \E text \in FeedTexts :
                /\ CharData(text)
                /\ LET innermost == IF stack = <<>> THEN "" ELSE stack[Len(stack)]
                   IN  /\ (innermost = "filename" /\ newWork # 0) =>
                             works'[newWork].FileName = TrimSpace(text)
                       /\ IF innermost = "model"
                          THEN newModel' = TrimSpace(text) /\ newModelDetected'
                          ELSE newModelDetected' => newModelDetected
                       /\ \A w \in 1..Len(works) :
                             \A f \in DOMAIN createWork :
                                 works'[w][f] # works[w][f] =>
                                     f \in RoutedFields(innermost)
       ELSE stack' # stack => ~IsText

\* C28: the context stack tracks the open-tag path: in every state of a run
\* that has not aborted the stack is the sequence of the names of the start
\* tags processed and not yet closed, in opening order; a start tag pushes
\* one name, an accepted end tag pops one, a text token leaves the stack
\* unchanged and is routed by the name of the innermost open element.
C28_StackTracksPath == []C28_StackIsOpenPath /\ [][C28_Step]_vars

\* C29: the parser never crashes on a well-nested token stream: no step
\* dereferences a null in-progress work at a work end, indexes the last
\* element of an empty works list or of an empty stack; every abort is one
\* of the reported error exits.
C29_NoCrash == pc # "panic"

\* C30: pending model state does not cross work boundaries: the model of a
\* work is resolved from a model text token read inside that work; a model
\* name read in an earlier work or outside any work is never attached to a
\* later work, for the pending flag and the pending name are both clear when
\* a work starts.
C30_PendingStaysInWork ==
    [][Len(works') > Len(works) => (~newModelDetected /\ newModel = <<>>)]_vars

\* ---------------------------------------------------------------- C31
\* the fields of a work a text token can populate: the make and the model
\* resolved with it count as one
FieldGroups ==
    {{"ID"}, {"FileName"}, {"WMake", "WModel"}, {"URISmall"}, {"URIMedium"},
     {"URILarge"}}

\* the field groups of work w the step changes
ChangedGroups(w) ==
    {g \in FieldGroups : \E f \in g : works'[w][f] # works[w][f]}

\* C31: one text token populates at most one field: a step that leaves the
\* number of works alone (a text token) changes at most one of the fields id,
\* filename, make/model, thumbnail URL, medium URL and large URL of any work;
\* the text of an id, filename, make or model element is not also stored in
\* a URL field, and one token does not set two URL fields.
C31_OneFieldPerToken ==
    [][Len(works') = Len(works) =>
         \A w \in 1..Len(works) : Cardinality(ChangedGroups(w)) <= 1]_vars

\* ---------------------------------------------------------------- C32
\* C32: each page has its own file: in a completed run no output file path
\* is created more than once; index.html, nomake.html, the file of every
\* make and the file of every model are pairwise distinct paths, also when
\* two makes have a model of the same name and when a make and a model have
\* the same name.
C32_OwnFilePerPage ==
    pc = "done" =>
        \A m, n \in 1..Len(files) : m # n => files[m].path # files[n].path

\* ---------------------------------------------------------------- C33
\* C33: content of the no-make page: after a completed run with a non-empty
\* no-make list, nomake.html as it is left on disk holds the thumbnail of
\* exactly one work, the last work of the no-make list, whatever the length
\* of the list.
C33_NoMakePageContent ==
    (pc = "done" /\ worksSM # <<>>) =>
        /\ IsWritten(NoMakeFile)
        /\ FileNamed(NoMakeFile).thumbs =
             <<EscapeString(works[worksSM[Len(worksSM)]].URISmall)>>

\* ---------------------------------------------------------------- C34
\* the makes whose models list holds the model md
ListingMakes(md) == {m \in 1..Len(makes) : md \in Range(makes[m].Models)}

\* C34: model ownership: in every reachable state every Model of a make's
\* models list has that make as its owning make, every Model is in the
\* models list of exactly one make, once, and every model a work refers to
\* is in the models list of some make.
C34_ModelOwnership ==
    /\ \A m \in 1..Len(makes) : \A a \in 1..Len(makes[m].Models) :
          /\ makes[m].Models[a] \in 1..Len(models)
          /\ models[makes[m].Models[a]].MMake = m
    /\ \A md \in 1..Len(models) :
          /\ Cardinality(ListingMakes(md)) = 1
          /\ \A m \in ListingMakes(md) : Count(md, makes[m].Models) = 1
    /\ \A w \in WorkIds :
          works[w].WModel # 0 => ListingMakes(works[w].WModel) # {}

\* two makes with one model each, the two models of one name, and a work
\* that refers to the model of the second make
C34_Witness ==
    \E w \in WorkIds :
        /\ Len(makes) = 2
        /\ Len(makes[1].Models) = 1
        /\ Len(makes[2].Models) = 1
        /\ models[makes[1].Models[1]].Name = models[makes[2].Models[1]].Name
        /\ works[w].WMake = 2
        /\ works[w].WModel = makes[2].Models[1]
        /\ ListingMakes(works[w].WModel) = {2}

\* ---------------------------------------------------------------- C35
\* every work of a make's works list has that make, every work of a model's
\* works list has that model
C35_BackLinks ==
    /\ \A m \in 1..Len(makes) : \A k \in 1..Len(makes[m].Works) :
          /\ makes[m].Works[k] \in WorkIds
          /\ works[makes[m].Works[k]].WMake = m
    /\ \A md \in 1..Len(models) : \A k \in 1..Len(models[md].Works) :
          /\ models[md].Works[k] \in WorkIds
          /\ works[models[md].Works[k]].WModel = md

\* the step is the end token of the open work, and list is old with that
\* work added
AddsOpenWork(old, list) ==
    /\ pc = "parse"
    /\ Top = "work"
    /\ stack' = SubSeq(stack, 1, Len(stack) - 1)
    /\ newWork # 0
    /\ newWork' = 0
    /\ list = Append(old, newWork)

\* a works list of a make or a model changes only by the end token of the
\* work that is added to it; a new make or model starts with an empty list
C35_Step ==
    /\ \A m \in 1..Len(makes') :
          IF m <= Len(makes)
          THEN makes'[m].Works # makes[m].Works =>
                  /\ AddsOpenWork(makes[m].Works, makes'[m].Works)
                  /\ works[newWork].WMake = m
          ELSE makes'[m].Works = <<>>
    /\ \A md \in 1..Len(models') :
          IF md <= Len(models)
          THEN models'[md].Works # models[md].Works =>
                  /\ AddsOpenWork(models[md].Works, models'[md].Works)
                  /\ works[newWork].WModel = md
          ELSE models'[md].Works = <<>>

\* C35: back-links of the secondary indexes: in every reachable state every
\* work of a make's works list has that make as its make and every work of
\* a model's works list has that model as its model; a work is added to
\* these lists only at its own work-end token.
C35_IndexBackLinks == []C35_BackLinks /\ [][C35_Step]_vars

\* two finished works of two models, each in the works list of its make and
\* of its model
C35_Witness ==
    \E w1, w2 \in finalized :
        /\ works[w1].WModel # 0
        /\ works[w2].WModel # 0
        /\ works[w1].WModel # works[w2].WModel
        /\ InMake(w1, works[w1].WMake) = 1
        /\ InModel(w1, works[w1].WModel) = 1
        /\ InMake(w2, works[w2].WMake) = 1
        /\ InModel(w2, works[w2].WModel) = 1

====
